---- MODULE Spec2Model ----
(***************************************************************************)
(* Model of the NCP SPI frame transport, src/ncp/ncp_spi.cpp.              *)
(*                                                                         *)
(* Two execution contexts are modelled.  The transaction completion        *)
(* handler runs in interrupt context: it is one atomic action and may     *)
(* fire between any two task-context steps.  The outbound assembly API    *)
(* and the two deferred handlers run in task context, one at a time.      *)
(* OutboundFrameSend is split where the interrupt can observe a           *)
(* difference: after mSending has been set (line 301) and before the      *)
(* driver call (line 303).                                                *)
(*                                                                         *)
(* Buffers are byte sequences; C index i is TLA+ index i + 1.              *)
(***************************************************************************)
EXTENDS Integers, Sequences, FiniteSets, TLC

\* ---------------------------------------------------------------- bounds

\* Payload capacity of mSendFrame and of mReceiveFrame
\* (sizeof(buffer) - SPI_HEADER_LENGTH); the sizes are fixed in ncp_spi.hpp.
MaxPayload == 1

\* ------------------------------------------------------------- constants

SPI_HEADER_LENGTH == 5

SPI_RESET_FLAG == 128

SendFrameSize == SPI_HEADER_LENGTH + MaxPayload

ReceiveFrameSize == SPI_HEADER_LENGTH + MaxPayload

\* Lengths the caller may ask to feed: up to one more than the capacity.
FeedLens == 0 .. (MaxPayload + 1)

\* Payload byte values, distinct from the zero the buffers start with.
FeedBytes == {1}

MasterBytes == {1}

\* Accept-lengths the master may declare: nothing, or a whole payload.
MasterAccepts == {0, MaxPayload}

\* Data-lengths the master may declare: none, every length that fits, and one
\* that needs the high byte of the field.
MasterDatas == (0 .. MaxPayload) \cup {256 + 1}

\* Transaction lengths the master may clock: none, a single byte, and a
\* header with up to a full payload.
TransLens == {0, 1} \cup (SPI_HEADER_LENGTH .. (SPI_HEADER_LENGTH + MaxPayload))

Min(a, b) == IF a <= b THEN a ELSE b

Uint16(x) == x % 65536

\* No cursor yet: mSendFrameIter is first assigned by OutboundFrameBegin.
NoIter == 0 - 1

VARIABLES
    mSendFrame,          \* uint8_t mSendFrame[]
    mEmptySendFrame,     \* uint8_t mEmptySendFrame[SPI_HEADER_LENGTH]
    mReceiveFrame,       \* uint8_t mReceiveFrame[]
    mSendFrameIter,      \* write cursor, as an offset into mSendFrame
    mSending,
    mHandlingRxFrame,
    mHandlingSendDone,
    rxTaskPosted,        \* mHandleRxFrame tasklet: posts not yet run
    sendDonePosted,      \* mHandleSendDone tasklet: posts not yet run
    armed,               \* driver: the prepared transaction
    inProgress,          \* driver: the master is clocking the armed transaction
    onWire,              \* what the outbound header said when the master started
    pc,                  \* task context: "idle" or inside OutboundFrameSend
    frameOpen,           \* caller: a Begin succeeded and Send has not been called
    ret,                 \* the API call that just returned: its argument, its
                         \* return value, and mSending when it was entered
    cb,                  \* the completion callback that just ran: its arguments,
                         \* what the master did, which handlers it posted,
                         \* whether a Send had found the driver busy
    unnotified,          \* 1 while a sent frame's HandleSpaceAvailableInTxBuffer is due
    notifyExcess,        \* a notification came with no frame due one
    rxDetected,          \* what the master sent in the last detected receive
    rxDelivered,         \* what HandleReceive was last given
    sendBusy             \* the last OutboundFrameSend found the driver busy

vars == << mSendFrame, mEmptySendFrame, mReceiveFrame,
           mSendFrameIter, mSending, mHandlingRxFrame, mHandlingSendDone,
           rxTaskPosted, sendDonePosted, armed, inProgress, onWire, pc,
           frameOpen, ret, cb, unnotified, notifyExcess, rxDetected, rxDelivered, sendBusy >>

bufVars == << mSendFrame, mEmptySendFrame, mReceiveFrame >>



NoRet == [op |-> "none", err |-> "None", arg |-> 0, sending |-> FALSE]

Return(op, err, arg, sending) == [op |-> op, err |-> err, arg |-> arg, sending |-> sending]

None == [len |-> 0 - 1, data |-> << >>]

NoCb == [len |-> 0 - 1, tx |-> 0 - 1, dup |-> FALSE, afterBusy |-> FALSE,
         rx |-> None, room |-> 0, adv |-> 0, t |-> << >>, hdr |-> << >>,
         posted |-> FALSE, rxPosted |-> FALSE]

\* ---------------------------------------------------------- header codec

spi_header_set_flag_byte(header, value) ==
    [i \in 1 .. Len(header) |-> IF i = 1 THEN value ELSE header[i]]

spi_header_set_accept_len(header, len) ==
    [i \in 1 .. Len(header) |->
        CASE i = 2 -> len % 256
          [] i = 3 -> (len \div 256) % 256
          [] OTHER -> header[i]]

spi_header_set_data_len(header, len) ==
    [i \in 1 .. Len(header) |->
        CASE i = 4 -> len % 256
          [] i = 5 -> (len \div 256) % 256
          [] OTHER -> header[i]]

spi_header_get_flag_byte(header) == header[1]

spi_header_get_accept_len(header) == Uint16(header[2] + header[3] * 256)

spi_header_get_data_len(header) == Uint16(header[4] + header[5] * 256)

Zeros(n) == [i \in 1 .. n |-> 0]

\* ------------------------------------------------------------ the driver

Transaction(miso, misoLen, mosi, mosiLen, flag) ==
    [miso |-> miso, misoLen |-> misoLen, mosi |-> mosi, mosiLen |-> mosiLen,
     flag |-> flag]

\* otPlatSpiSlavePrepareTransaction: refused while a transaction is in
\* progress, otherwise replaces the prepared transaction.
PrepareBusy == inProgress

\* --------------------------------------------------------------- NcpSpi

\* The object is placed in the zero-filled static sNcpRaw; the constructor
\* writes mSending, the two flag bytes and mSendFrame's accept-length.
Init ==
    /\ mSendFrame = spi_header_set_accept_len(
                        spi_header_set_flag_byte(Zeros(SendFrameSize), SPI_RESET_FLAG),
                        ReceiveFrameSize - SPI_HEADER_LENGTH)
    /\ mEmptySendFrame = spi_header_set_flag_byte(Zeros(SPI_HEADER_LENGTH), SPI_RESET_FLAG)
    /\ mReceiveFrame = Zeros(ReceiveFrameSize)
    /\ mSendFrameIter = NoIter
    /\ mSending = FALSE
    /\ mHandlingRxFrame = FALSE
    /\ mHandlingSendDone = FALSE
    /\ rxTaskPosted = 0
    /\ sendDonePosted = 0
    /\ armed = Transaction("mEmptySendFrame", SPI_HEADER_LENGTH,
                           "mEmptyReceiveFrame", SPI_HEADER_LENGTH, TRUE)
    /\ inProgress = FALSE
    /\ onWire = [accept |-> 0, data |-> 0]
    /\ pc = "idle"
    /\ frameOpen = FALSE
    /\ ret = NoRet
    /\ cb = NoCb
    /\ unnotified = 0
    /\ notifyExcess = FALSE
    /\ rxDetected = None
    /\ rxDelivered = None
    /\ sendBusy = FALSE

OutboundFrameSize == Uint16(mSendFrameIter - SPI_HEADER_LENGTH)

\* Faulty variant: the staged bytes are not subtracted.
OutboundFrameGetRemaining_IgnoresStaged == Uint16(SendFrameSize - SPI_HEADER_LENGTH)

OutboundFrameGetRemaining ==
    Uint16((SendFrameSize - SPI_HEADER_LENGTH) - OutboundFrameSize)

\* ------------------------------------------- transaction completion handler

\* The buffer a driver-supplied pointer refers to.
Buf(name) ==
    CASE name = "mSendFrame" -> mSendFrame
      [] name = "mEmptySendFrame" -> mEmptySendFrame
      [] name = "mReceiveFrame" -> mReceiveFrame

\* Lines 146-158: the four lengths, 0 unless the header was exchanged.
HeaderLen(aTransactionLength, aBufLen, value) ==
    IF aTransactionLength >= SPI_HEADER_LENGTH /\ aBufLen >= SPI_HEADER_LENGTH
    THEN value ELSE 0

\* Faulty variant: a pending receive does not stop a second detection.
RxFrameDetected_Repeats(aTransactionLength, rx_data_len, rx_accept_len) ==
    /\ aTransactionLength >= SPI_HEADER_LENGTH
    /\ rx_data_len > 0
    /\ rx_data_len <= aTransactionLength - SPI_HEADER_LENGTH
    /\ rx_data_len <= rx_accept_len

\* Lines 160-164.
RxFrameDetected(aTransactionLength, rx_data_len, rx_accept_len) ==
    /\ aTransactionLength >= SPI_HEADER_LENGTH
    /\ ~mHandlingRxFrame
    /\ rx_data_len > 0
    /\ rx_data_len <= aTransactionLength - SPI_HEADER_LENGTH
    /\ rx_data_len <= rx_accept_len

\* Faulty variant: a send-completion already pending does not stop a second one.
SendDoneDetected_Repeats(aTransactionLength, tx_data_len, tx_accept_len) ==
    /\ aTransactionLength >= SPI_HEADER_LENGTH
    /\ mSending
    /\ tx_data_len > 0
    /\ tx_data_len <= aTransactionLength - SPI_HEADER_LENGTH
    /\ tx_data_len <= tx_accept_len

\* Faulty variant: a send-completion is detected without a frame outstanding.
SendDoneDetected_NotSending(aTransactionLength, tx_data_len, tx_accept_len) ==
    /\ aTransactionLength >= SPI_HEADER_LENGTH
    /\ ~mHandlingSendDone
    /\ tx_data_len > 0
    /\ tx_data_len <= aTransactionLength - SPI_HEADER_LENGTH
    /\ tx_data_len <= tx_accept_len

\* Lines 169-174.
SendDoneDetected(aTransactionLength, tx_data_len, tx_accept_len) ==
    /\ aTransactionLength >= SPI_HEADER_LENGTH
    /\ mSending
    /\ ~mHandlingSendDone
    /\ tx_data_len > 0
    /\ tx_data_len <= aTransactionLength - SPI_HEADER_LENGTH
    /\ tx_data_len <= tx_accept_len

\* Faulty variant: the flag is cleared only once a whole header was exchanged.
ResetFlagCleared_NeedsHeader(aTransactionLength, aMISOBufLen) ==
    aTransactionLength >= SPI_HEADER_LENGTH /\ aMISOBufLen >= 1

\* Lines 181-183.
ResetFlagCleared(aTransactionLength, aMISOBufLen) ==
    aTransactionLength >= 1 /\ aMISOBufLen >= 1

\* Faulty variant: the handler never selects the send buffer.
NextMISOBuf_AlwaysEmpty(sending, handlingSendDone) == "mEmptySendFrame"

\* Lines 189-198: the outbound buffer of the next transaction.
NextMISOBuf(sending, handlingSendDone) ==
    IF sending /\ ~handlingSendDone THEN "mSendFrame" ELSE "mEmptySendFrame"

\* Faulty variant: the send buffer is armed header-only.
NextMISOBufLen_HeaderOnly(sending, handlingSendDone) == SPI_HEADER_LENGTH

NextMISOBufLen(sending, handlingSendDone) ==
    IF sending /\ ~handlingSendDone
    THEN Uint16(OutboundFrameSize + SPI_HEADER_LENGTH)
    ELSE SPI_HEADER_LENGTH

\* Lines 200-211: the inbound buffer and the accept-length advertised.
\* Faulty variant: the real inbound buffer is armed even while it is read.
NextMOSIBuf_AlwaysReal(handlingRxFrame) == "mReceiveFrame"

NextMOSIBuf(handlingRxFrame) ==
    IF handlingRxFrame THEN "mEmptyReceiveFrame" ELSE "mReceiveFrame"

NextMOSIBufLen(handlingRxFrame) ==
    IF handlingRxFrame THEN SPI_HEADER_LENGTH ELSE ReceiveFrameSize

\* Faulty variant: no capacity is advertised even with the real inbound buffer.
NextAcceptLen_AlwaysZero(handlingRxFrame) == 0

NextAcceptLen(handlingRxFrame) ==
    IF handlingRxFrame THEN 0 ELSE ReceiveFrameSize - SPI_HEADER_LENGTH

\* Line 218: the interrupt request flag.
NextFlag(sending, handlingSendDone) == sending /\ ~handlingSendDone

\* NcpSpi::SpiTransactionComplete, lines 130-220, called with transaction t
\* of actual length aTransactionLength.  recv/emptyRecv are the inbound
\* buffers as the master left them, sent is what the master put on the wire,
\* busy says whether the driver refuses the prepare call of line 213.
CompletionHandler(t, aTransactionLength, recv, emptyRecv, sent, busy) ==
    LET miso == Buf(t.miso)
        mosi == IF t.mosi = "mReceiveFrame" THEN recv ELSE emptyRecv
        rx_accept_len == HeaderLen(aTransactionLength, t.misoLen,
                                   spi_header_get_accept_len(miso))
        tx_data_len == HeaderLen(aTransactionLength, t.misoLen,
                                 spi_header_get_data_len(miso))
        rx_data_len == HeaderLen(aTransactionLength, t.mosiLen,
                                 spi_header_get_data_len(mosi))
        tx_accept_len == HeaderLen(aTransactionLength, t.mosiLen,
                                   spi_header_get_accept_len(mosi))
        rxEvent == RxFrameDetected(aTransactionLength, rx_data_len, rx_accept_len)
        txEvent == SendDoneDetected(aTransactionLength, tx_data_len, tx_accept_len)
        handlingRx == mHandlingRxFrame \/ rxEvent
        handlingSD == mHandlingSendDone \/ txEvent
        clear == ResetFlagCleared(aTransactionLength, t.misoLen)
        sf == IF clear THEN spi_header_set_flag_byte(mSendFrame, 0) ELSE mSendFrame
        ef == IF clear THEN spi_header_set_flag_byte(mEmptySendFrame, 0)
              ELSE mEmptySendFrame
        out == NextMISOBuf(mSending, handlingSD)
    IN  /\ mHandlingRxFrame' = handlingRx
        /\ rxTaskPosted' = IF rxEvent THEN rxTaskPosted + 1 ELSE rxTaskPosted
        /\ mHandlingSendDone' = handlingSD
        /\ sendDonePosted' = IF txEvent THEN sendDonePosted + 1 ELSE sendDonePosted
        /\ mSendFrame' = IF out = "mSendFrame"
                         THEN spi_header_set_accept_len(sf, NextAcceptLen(handlingRx))
                         ELSE sf
        /\ mEmptySendFrame' = IF out = "mEmptySendFrame"
                              THEN spi_header_set_accept_len(ef, NextAcceptLen(handlingRx))
                              ELSE ef
        /\ mReceiveFrame' = recv
        /\ armed' = IF busy THEN armed
                    ELSE Transaction(out, NextMISOBufLen(mSending, handlingSD),
                                     NextMOSIBuf(handlingRx), NextMOSIBufLen(handlingRx),
                                     NextFlag(mSending, handlingSD))
        /\ rxDetected' = IF rxEvent THEN [len |-> sent.len, data |-> sent.data]
                         ELSE IF mHandlingRxFrame THEN rxDetected ELSE None
        /\ rxDelivered' = None
        /\ sendBusy' = FALSE
        /\ ret' = IF pc = "idle" THEN NoRet ELSE ret
        /\ UNCHANGED << mSendFrameIter, mSending, pc, frameOpen, unnotified,
                        notifyExcess >>

\* What the master clocks in: its header, then payload bytes.
MasterStream(accept, data, fill) ==
    spi_header_set_data_len(spi_header_set_accept_len(Zeros(SPI_HEADER_LENGTH), accept),
                            data)
    \o [i \in 1 .. (MaxPayload + 1) |-> fill]

\* The driver stores the first n bytes clocked in.
WriteMOSI(buf, stream, n) ==
    [i \in 1 .. Len(buf) |-> IF i <= n THEN stream[i] ELSE buf[i]]

\* The master starts clocking the prepared transaction.
MasterBegin ==
    /\ ~inProgress
    /\ inProgress' = TRUE
    /\ onWire' = [accept |-> spi_header_get_accept_len(Buf(armed.miso)),
                  data |-> spi_header_get_data_len(Buf(armed.miso))]
    /\ ret' = IF pc = "idle" THEN NoRet ELSE ret
    /\ cb' = NoCb
    /\ UNCHANGED << bufVars, mSendFrameIter, mSending, mHandlingRxFrame,
                    mHandlingSendDone, rxTaskPosted, sendDonePosted, armed, pc,
                    frameOpen, unnotified, notifyExcess, rxDetected, rxDelivered, sendBusy >>

\* The transaction ends after aTransactionLength bytes and the driver calls
\* the completion callback with the buffers it was given.  A master that
\* clocks less than a header declares nothing.
SpiTransactionComplete ==
    /\ inProgress
    /\ \E aTransactionLength \in TransLens, m_accept \in MasterAccepts,
          m_data \in MasterDatas, fill \in MasterBytes :
         LET stream == MasterStream(m_accept, m_data, fill)
             n == Min(aTransactionLength, armed.mosiLen)
             recv == IF armed.mosi = "mReceiveFrame"
                     THEN WriteMOSI(mReceiveFrame, stream, n) ELSE mReceiveFrame
             \* mEmptyReceiveFrame is read only here, right after the master
             \* wrote it, and only when all five bytes were written.
             emptyRecv == WriteMOSI(Zeros(SPI_HEADER_LENGTH), stream, n)
             sent == [len |-> m_data,
                      data |-> [i \in 1 .. Min(m_data, MaxPayload + 1) |-> fill]]
             \* the frame in the send buffer went out and the master took it
             confirms == /\ armed.miso = "mSendFrame"
                         /\ onWire.data = spi_header_get_data_len(mSendFrame)
                         /\ m_accept >= onWire.data
                         /\ aTransactionLength >= SPI_HEADER_LENGTH + onWire.data
         IN  /\ aTransactionLength < SPI_HEADER_LENGTH => (m_accept = 0 /\ m_data = 0)
             /\ CompletionHandler(armed, aTransactionLength, recv, emptyRecv, sent, FALSE)
             /\ cb' = [len |-> aTransactionLength,
                       tx |-> IF confirms THEN onWire.data ELSE 0 - 1,
                       dup |-> FALSE, afterBusy |-> sendBusy, rx |-> sent,
                       room |-> aTransactionLength - SPI_HEADER_LENGTH,
                       adv |-> onWire.accept, t |-> armed, hdr |-> emptyRecv,
                       posted |-> (sendDonePosted' > sendDonePosted),
                       rxPosted |-> (rxTaskPosted' > rxTaskPosted)]
    /\ inProgress' = FALSE
    /\ onWire' = [accept |-> 0, data |-> 0]

\* The driver calls the callback a second time with the arguments of the
\* call that has just confirmed a frame (a duplicated or retried
\* transaction), before or right after the send-done handler has run.
ReplayCallback ==
    /\ cb.posted /\ ~cb.dup
    /\ CompletionHandler(cb.t, cb.len, mReceiveFrame, cb.hdr, cb.rx, PrepareBusy)
    /\ cb' = [cb EXCEPT !.dup = TRUE, !.tx = 0 - 1, !.afterBusy = FALSE,
                        !.rxPosted = (rxTaskPosted' > rxTaskPosted)]
    /\ UNCHANGED << inProgress, onWire >>

\* ------------------------------------------------ outbound frame assembly

\* Faulty variant: Begin without the mSending test.
OutboundFrameBegin_NeverBusy ==
    /\ pc = "idle"
    /\ mSendFrameIter' = SPI_HEADER_LENGTH
    /\ frameOpen' = TRUE
    /\ ret' = Return("Begin", "None", 0, mSending)
    /\ cb' = NoCb
    /\ UNCHANGED << bufVars, mSending, mHandlingRxFrame, mHandlingSendDone,
                    rxTaskPosted, sendDonePosted, armed, inProgress, onWire, pc,
                    unnotified, notifyExcess, rxDetected, rxDelivered,
                    sendBusy >>

\* NcpSpi::OutboundFrameBegin, lines 234-249.
OutboundFrameBegin ==
    /\ pc = "idle"
    /\ IF mSending
       THEN /\ ret' = Return("Begin", "Busy", 0, mSending)
            /\ UNCHANGED << mSendFrameIter, frameOpen >>
       ELSE /\ mSendFrameIter' = SPI_HEADER_LENGTH
            /\ frameOpen' = TRUE
            /\ ret' = Return("Begin", "None", 0, mSending)
    /\ cb' = NoCb
    /\ UNCHANGED << bufVars, mSending, mHandlingRxFrame, mHandlingSendDone,
                    rxTaskPosted, sendDonePosted, armed, inProgress, onWire, pc,
                    unnotified, notifyExcess, rxDetected, rxDelivered,
                    sendBusy >>

\* memcpy(mSendFrameIter, frame, frameLength)
CopyAt(buf, iter, frame) ==
    [i \in 1 .. Len(buf) |->
        IF i > iter /\ i <= iter + Len(frame) THEN frame[i - iter] ELSE buf[i]]

\* Faulty variant: the feed is not checked against the remaining capacity.
OutboundFrameFeedData_Unchecked(frame) ==
    /\ pc = "idle"
    /\ mSendFrameIter # NoIter
    /\ mSendFrame' = CopyAt(mSendFrame, mSendFrameIter, frame)
    /\ mSendFrameIter' = mSendFrameIter + Len(frame)
    /\ ret' = Return("FeedData", "None", Len(frame), mSending)
    /\ cb' = NoCb
    /\ UNCHANGED << mEmptySendFrame, mReceiveFrame, mSending,
                    mHandlingRxFrame, mHandlingSendDone, rxTaskPosted, sendDonePosted,
                    armed, inProgress, onWire, pc, frameOpen, unnotified, notifyExcess,
                    rxDetected, rxDelivered, sendBusy >>

\* NcpSpi::OutboundFrameFeedData, lines 251-268.
OutboundFrameFeedData(frame) ==
    /\ pc = "idle"
    /\ mSendFrameIter # NoIter
    /\ IF Len(frame) > OutboundFrameGetRemaining
       THEN /\ ret' = Return("FeedData", "Failed", Len(frame), mSending)
            /\ UNCHANGED << mSendFrame, mSendFrameIter >>
       ELSE /\ mSendFrame' = CopyAt(mSendFrame, mSendFrameIter, frame)
            /\ mSendFrameIter' = mSendFrameIter + Len(frame)
            /\ ret' = Return("FeedData", "None", Len(frame), mSending)
    /\ cb' = NoCb
    /\ UNCHANGED << mEmptySendFrame, mReceiveFrame, mSending,
                    mHandlingRxFrame, mHandlingSendDone, rxTaskPosted, sendDonePosted,
                    armed, inProgress, onWire, pc, frameOpen, unnotified, notifyExcess,
                    rxDetected, rxDelivered, sendBusy >>

\* NcpSpi::OutboundFrameFeedMessage, lines 270-288; message is the bytes
\* message.Read(0, message.GetLength(), ...) yields.
OutboundFrameFeedMessage(message) ==
    /\ pc = "idle"
    /\ mSendFrameIter # NoIter
    /\ IF Len(message) > OutboundFrameGetRemaining
       THEN /\ ret' = Return("FeedMessage", "Failed", Len(message), mSending)
            /\ UNCHANGED << mSendFrame, mSendFrameIter >>
       ELSE /\ mSendFrame' = CopyAt(mSendFrame, mSendFrameIter, message)
            /\ mSendFrameIter' = mSendFrameIter + Len(message)
            /\ ret' = Return("FeedMessage", "None", Len(message), mSending)
    /\ cb' = NoCb
    /\ UNCHANGED << mEmptySendFrame, mReceiveFrame, mSending,
                    mHandlingRxFrame, mHandlingSendDone, rxTaskPosted, sendDonePosted,
                    armed, inProgress, onWire, pc, frameOpen, unnotified, notifyExcess,
                    rxDetected, rxDelivered, sendBusy >>

\* NcpSpi::OutboundFrameSend, lines 294-301: the header and mSending.
OutboundFrameSendHeader ==
    /\ pc = "idle"
    /\ mSendFrameIter # NoIter
    /\ mSendFrame' = spi_header_set_accept_len(
                         spi_header_set_data_len(mSendFrame, OutboundFrameSize), 0)
    /\ mSending' = TRUE
    /\ pc' = "send"
    /\ unnotified' = 1
    /\ frameOpen' = FALSE
    /\ UNCHANGED << mEmptySendFrame, mReceiveFrame,
                    mSendFrameIter, mHandlingRxFrame, mHandlingSendDone, rxTaskPosted,
                    sendDonePosted, armed, inProgress, onWire, notifyExcess,
                    rxDetected, rxDelivered, sendBusy >>
    /\ ret' = Return("Send", "pending", 0, mSending)
    /\ cb' = NoCb

\* NcpSpi::OutboundFrameSend, lines 303-319: the driver call and the return.
\* frameLength was read at line 294; the cursor has not moved since.
OutboundFrameSendPrepare ==
    /\ pc = "send"
    /\ armed' = IF PrepareBusy THEN armed
                ELSE Transaction("mSendFrame",
                                 Uint16(OutboundFrameSize + SPI_HEADER_LENGTH),
                                 "mEmptyReceiveFrame", SPI_HEADER_LENGTH, TRUE)
    /\ sendBusy' = PrepareBusy
    /\ ret' = [ret EXCEPT !.err = "None"]
    /\ cb' = NoCb
    /\ pc' = "idle"
    /\ UNCHANGED << bufVars, mSendFrameIter, mSending, mHandlingRxFrame,
                    mHandlingSendDone, rxTaskPosted, sendDonePosted, inProgress,
                    onWire, frameOpen, unnotified, notifyExcess, rxDetected, rxDelivered >>

\* ------------------------------------------------------ deferred handlers

\* Faulty variant: the send-done handler also clears the pending receive.
HandleSendDone_ClearsRx ==
    /\ pc = "idle"
    /\ sendDonePosted > 0
    /\ sendDonePosted' = sendDonePosted - 1
    /\ mSending' = FALSE
    /\ mHandlingSendDone' = FALSE
    /\ mHandlingRxFrame' = FALSE
    /\ unnotified' = IF unnotified > 0 THEN unnotified - 1 ELSE unnotified
    /\ notifyExcess' = (notifyExcess \/ unnotified = 0)
    /\ ret' = NoRet
    /\ cb' = cb
    /\ UNCHANGED << bufVars, mSendFrameIter, rxTaskPosted, armed,
                    inProgress, onWire, pc, frameOpen, rxDetected,
                    rxDelivered, sendBusy >>

\* NcpSpi::HandleSendDone, lines 327-333.
HandleSendDone ==
    /\ pc = "idle"
    /\ sendDonePosted > 0
    /\ sendDonePosted' = sendDonePosted - 1
    /\ mSending' = FALSE
    /\ mHandlingSendDone' = FALSE
    /\ unnotified' = IF unnotified > 0 THEN unnotified - 1 ELSE unnotified
    /\ notifyExcess' = (notifyExcess \/ unnotified = 0)
    /\ ret' = NoRet
    /\ cb' = cb
    /\ UNCHANGED << bufVars, mSendFrameIter, mHandlingRxFrame, rxTaskPosted, armed,
                    inProgress, onWire, pc, frameOpen, rxDetected,
                    rxDelivered, sendBusy >>

\* NcpSpi::HandleRxFrame, lines 340-345.
HandleRxFrame ==
    /\ pc = "idle"
    /\ rxTaskPosted > 0
    /\ rxTaskPosted' = rxTaskPosted - 1
    /\ LET rx_data_len == spi_header_get_data_len(mReceiveFrame)
       IN  rxDelivered' =
               [len |-> rx_data_len,
                data |-> SubSeq(mReceiveFrame, SPI_HEADER_LENGTH + 1,
                                Min(SPI_HEADER_LENGTH + rx_data_len, ReceiveFrameSize))]
    /\ mHandlingRxFrame' = FALSE
    /\ ret' = NoRet
    /\ cb' = NoCb
    /\ UNCHANGED << bufVars, mSendFrameIter, mSending, mHandlingSendDone,
                    sendDonePosted, armed, inProgress, onWire, pc, frameOpen,
                    unnotified, notifyExcess, rxDetected, sendBusy >>

\* ------------------------------------------------------------ the caller

FeedFrames == {[i \in 1 .. n |-> b] : n \in FeedLens, b \in FeedBytes}

\* The caller assembles a frame as NcpBase does: Feed and Send only inside
\* a frame a successful Begin opened.
Next ==
    \/ MasterBegin
    \/ SpiTransactionComplete
    \/ OutboundFrameBegin
    \/ \E frame \in FeedFrames : frameOpen /\ OutboundFrameFeedData(frame)
    \/ \E message \in FeedFrames : frameOpen /\ OutboundFrameFeedMessage(message)
    \/ (frameOpen /\ OutboundFrameSendHeader)
    \/ OutboundFrameSendPrepare
    \/ HandleSendDone
    \/ HandleRxFrame

Spec == Init /\ [][Next]_vars

\* The caller calls the assembly API in any order once a cursor exists.
NextAnyCall ==
    \/ MasterBegin
    \/ SpiTransactionComplete
    \/ OutboundFrameBegin
    \/ \E frame \in FeedFrames : OutboundFrameFeedData(frame)
    \/ \E message \in FeedFrames : OutboundFrameFeedMessage(message)
    \/ OutboundFrameSendHeader
    \/ OutboundFrameSendPrepare
    \/ HandleSendDone
    \/ HandleRxFrame

SpecAnyCall == Init /\ [][NextAnyCall]_vars

\* The driver may repeat the callback that confirmed a frame.
NextReplay == Next \/ ReplayCallback

SpecReplay == Init /\ [][NextReplay]_vars

\* The master keeps issuing transactions and each one completes, a call that
\* has entered OutboundFrameSend returns, and a posted receive task is run by
\* the tasklet scheduler even though it cannot run while a call is in progress.
Fairness ==
    /\ WF_vars(MasterBegin)
    /\ WF_vars(SpiTransactionComplete)
    /\ WF_vars(OutboundFrameSendPrepare)
    /\ SF_vars(HandleRxFrame)

SpecFair == Init /\ [][Next]_vars /\ Fairness

\* ------------------------------------------------------------ properties

\* A completion callback has just run (a real transaction, not a replay).
CompletionStep == inProgress /\ ~inProgress'

\* OutboundFrameSend's driver call has just been made.
SendPrepareStep == pc = "send" /\ pc' = "idle"

\* The accept-length field of the outbound buffer of the prepared transaction.
ArmedAcceptLen == spi_header_get_accept_len(Buf(armed.miso))

\* The callback has just detected a receive event.
RxEventStep == rxTaskPosted' > rxTaskPosted

\* C1: every HandleReceive delivery is the delivery of the one receive event
\* detected before it, with the data-length and the payload the master sent
\* in the transaction that detected it; and an event is detected only when
\* none is pending, for a data-length > 0 that fits the transaction and the
\* accept-length that transaction advertised.
C1_DeliveryIsWhatWasSent ==
    /\ [](rxTaskPosted <= 1)
    /\ [](rxDelivered # None => rxDelivered = rxDetected)
    /\ [][RxEventStep =>
            /\ ~mHandlingRxFrame
            /\ cb'.rx.len > 0
            /\ cb'.rx.len <= cb'.room
            /\ cb'.rx.len <= cb'.adv]_vars

\* C4: a transaction armed while a receive is pending has the empty inbound
\* buffer and advertises accept-length 0.
C4_PendingReceiveArmsEmpty ==
    [][((CompletionStep \/ (SendPrepareStep /\ ~inProgress)) /\ mHandlingRxFrame')
         => (armed'.mosi = "mEmptyReceiveFrame" /\ ArmedAcceptLen' = 0)]_vars

\* C5: a prepared transaction whose outbound buffer is the send buffer with
\* a data-length > 0 advertises accept-length 0.
C5_HalfDuplex ==
    (armed.miso = "mSendFrame" /\ spi_header_get_data_len(mSendFrame) > 0)
        => spi_header_get_accept_len(mSendFrame) = 0

\* The callback that has just run belonged to a transaction that transmitted
\* the send buffer whose master accepted the frame it carried, for a frame
\* whose OutboundFrameSend has returned.
ConfirmingStep ==
    CompletionStep /\ pc = "idle" /\ mSending /\ ~mHandlingSendDone /\ cb'.tx >= 0

\* The send-done handler has just run.
SendDoneStep == sendDonePosted' < sendDonePosted

\* After the send-done handler the frame has been notified exactly once and
\* sending is false.
NotifiedOnce ==
    SendDoneStep => (~mSending' /\ unnotified = 1 /\ unnotified' = 0 /\ ~notifyExcess')

\* C2: for every staged length up to the capacity, 0 included, the callback
\* of a transaction that transmitted the sent frame and whose master accepted
\* it marks send-completion pending and posts the send-done handler, and
\* that handler notifies exactly once and leaves sending false.
C2_SendDoneOnConfirm ==
    [][(ConfirmingStep => (mHandlingSendDone' /\ sendDonePosted' = 1))
       /\ NotifiedOnce]_vars

\* The callback that confirmed a frame has just been delivered a second time.
ReplayStep == cb'.dup /\ ~cb.dup

\* C3: HandleSpaceAvailableInTxBuffer is never notified more often than
\* frames were sent and at most one send-done handler is posted at a time;
\* the callback that confirmed a frame, delivered a second time before or
\* after the send-done handler has run, posts nothing.
C3_NoSecondSendDone ==
    /\ [](~notifyExcess /\ sendDonePosted <= 1)
    /\ [][ReplayStep => /\ sendDonePosted' = sendDonePosted
                        /\ mHandlingSendDone' = mHandlingSendDone]_vars

\* The confirming callback was delivered again after the send-done handler ran.
C3_Witness ==
    cb.dup /\ sendDonePosted = 0 /\ ~mHandlingSendDone /\ ~mSending /\ unnotified = 0

\* The reset-announce bit of an outbound buffer's flag byte.
ResetFlag(buf) == (spi_header_get_flag_byte(buf) \div SPI_RESET_FLAG) % 2

\* An API call has just returned (every other step clears ret).
Returned(op) == ret'.op = op /\ pc' = "idle"

\* C6: a call to Begin, FeedData, FeedMessage or Send made while sending is
\* true returns Busy or Failed, never Ok.
C6_BusyWhileSending ==
    (ret.op # "none" /\ ret.err # "pending" /\ ret.sending)
        => ret.err \in {"Busy", "Failed"}

\* C7: Begin returns Busy exactly when sending is true, and then changes
\* neither cursor, send buffer nor flags; otherwise it returns Ok with the
\* cursor just past the header (size 0, remaining = capacity).
C7_BeginBusyIffSending ==
    [][Returned("Begin") =>
          /\ (ret'.err = "Busy") <=> mSending
          /\ mSending => UNCHANGED << mSendFrameIter, mSendFrame, mSending,
                                      mHandlingRxFrame, mHandlingSendDone >>
          /\ ~mSending => /\ ret'.err = "None"
                          /\ mSendFrameIter' = SPI_HEADER_LENGTH
                          /\ OutboundFrameSize' = 0
                          /\ OutboundFrameGetRemaining' = MaxPayload]_vars

\* Begin was refused while a frame with staged bytes was being sent.
C7_Witness ==
    /\ ret.op = "Begin" /\ ret.err = "Busy" /\ mSending
    /\ mSendFrameIter > SPI_HEADER_LENGTH

\* C8: inside a frame, a feed longer than the remaining capacity returns
\* Failed and changes neither cursor nor send buffer; any other feed returns
\* Ok and advances the cursor by its length.
C8_FeedWithinCapacity ==
    [][(Returned("FeedData") \/ Returned("FeedMessage")) =>
          LET staged == mSendFrameIter - SPI_HEADER_LENGTH
              remaining == MaxPayload - staged
          IN  IF ret'.arg > remaining
              THEN ret'.err = "Failed" /\ UNCHANGED << mSendFrameIter, mSendFrame >>
              ELSE ret'.err = "None" /\ mSendFrameIter' = mSendFrameIter + ret'.arg]_vars

\* A feed failed after an earlier feed had staged bytes, which remain.
C8_Witness ==
    /\ ret.op = "FeedData" /\ ret.err = "Failed" /\ ret.arg = 1
    /\ mSendFrameIter = SPI_HEADER_LENGTH + MaxPayload
    /\ mSendFrame[SPI_HEADER_LENGTH + MaxPayload] = 1

\* C9: the reset flag is set in both outbound buffers at initialization, a
\* callback with transaction length >= 1 leaves it clear in both, and no
\* other step changes it.
C9_ResetFlag ==
    /\ ResetFlag(mSendFrame) = 1 /\ ResetFlag(mEmptySendFrame) = 1
    /\ [][IF CompletionStep /\ cb'.len >= 1
          THEN ResetFlag(mSendFrame') = 0 /\ ResetFlag(mEmptySendFrame') = 0
          ELSE /\ ResetFlag(mSendFrame') = ResetFlag(mSendFrame)
               /\ ResetFlag(mEmptySendFrame') = ResetFlag(mEmptySendFrame)]_vars

\* A one-byte transaction has cleared the flag while a frame was being sent.
C9_Witness ==
    /\ cb.len = 1 /\ mSending
    /\ ResetFlag(mSendFrame) = 0 /\ ResetFlag(mEmptySendFrame) = 0

\* A Send whose driver call was refused as Busy returns Ok with sending true.
BusySendReturnsOk ==
    (SendPrepareStep /\ inProgress) =>
        (ret'.op = "Send" /\ ret'.err = "None" /\ mSending' /\ sendBusy')

\* The callback has prepared the send buffer with length staged size + 5.
SendFramePrepared ==
    /\ armed'.miso = "mSendFrame"
    /\ armed'.misoLen = (mSendFrameIter - SPI_HEADER_LENGTH) + SPI_HEADER_LENGTH

MasterAccept == spi_header_get_accept_len(cb'.hdr)

\* A transaction that transmitted the send buffer has just completed too
\* short for the frame it carried, or with the master accepting less.
UnconfirmedStep ==
    /\ CompletionStep /\ armed.miso = "mSendFrame"
    /\ \/ cb'.len < SPI_HEADER_LENGTH + onWire.data
       \/ MasterAccept < onWire.data

\* The callback has prepared the same transmission again.
SameFramePrepared ==
    /\ armed'.miso = "mSendFrame" /\ armed'.misoLen = armed.misoLen
    /\ spi_header_get_data_len(mSendFrame') = onWire.data
    /\ SubSeq(mSendFrame', SPI_HEADER_LENGTH + 1, SendFrameSize)
         = SubSeq(mSendFrame, SPI_HEADER_LENGTH + 1, SendFrameSize)

\* C11: when a transaction that transmitted the send buffer completes
\* without confirming it, sending stays true, no send-done is posted and the
\* callback prepares the send buffer again with the same length, data-length
\* and payload.
C11_RetransmitVerbatim ==
    [][UnconfirmedStep =>
          /\ mSending' /\ sendDonePosted' = sendDonePosted
          /\ SameFramePrepared]_vars

\* The prepared transaction uses one of the two outbound buffers and one of
\* the two inbound buffers, each with its own length.
ValidPrepared ==
    /\ \/ /\ armed.miso = "mSendFrame"
          /\ armed.misoLen = (mSendFrameIter - SPI_HEADER_LENGTH) + SPI_HEADER_LENGTH
       \/ /\ armed.miso = "mEmptySendFrame"
          /\ armed.misoLen = SPI_HEADER_LENGTH
    /\ \/ /\ armed.mosi = "mReceiveFrame"
          /\ armed.mosiLen = SPI_HEADER_LENGTH + MaxPayload
       \/ /\ armed.mosi = "mEmptyReceiveFrame"
          /\ armed.mosiLen = SPI_HEADER_LENGTH

\* C12: every completion callback, whatever the transaction length and the
\* flags, ends with a next transaction prepared from the send buffer
\* (staged size + 5) or the empty outbound buffer (5) and the real inbound
\* buffer (full size) or the empty inbound buffer (5).
C12_AlwaysPreparesValid ==
    [][CompletionStep => ValidPrepared']_vars

\* A callback shorter than a header ran while a receive and a send-done were
\* both pending.
C12_Witness ==
    /\ cb.len = 1 /\ ~cb.dup
    /\ mHandlingRxFrame /\ rxTaskPosted = 1
    /\ mHandlingSendDone /\ sendDonePosted = 1
    /\ armed.miso = "mEmptySendFrame" /\ armed.mosi = "mEmptyReceiveFrame"

\* The receive handler has just run.
RxHandlerStep == rxTaskPosted' < rxTaskPosted

\* A call of the outbound assembly API has just returned.
ApiStep == (pc = "idle" /\ ret'.op # "none") \/ SendPrepareStep

\* C13: mHandlingRxFrame and mHandlingSendDone become true only in the
\* completion callback and false only in their deferred handlers; the
\* outbound assembly calls change neither, and the callback never clears
\* mSending.
C13_SingleWriter ==
    [][/\ (~mHandlingRxFrame /\ mHandlingRxFrame') => CompletionStep
       /\ (~mHandlingSendDone /\ mHandlingSendDone') => CompletionStep
       /\ (mHandlingRxFrame /\ ~mHandlingRxFrame') => RxHandlerStep
       /\ (mHandlingSendDone /\ ~mHandlingSendDone') => SendDoneStep
       /\ (ApiStep \/ (pc = "idle" /\ pc' = "send"))
             => UNCHANGED << mHandlingRxFrame, mHandlingSendDone >>
       /\ (CompletionStep /\ mSending) => mSending']_vars

\* The send-done handler ran while a receive was pending and left it pending.
C13_Witness ==
    /\ mHandlingRxFrame /\ rxTaskPosted = 1
    /\ ~mHandlingSendDone /\ ~mSending /\ unnotified = 0 /\ cb.posted

\* C14: at most one receive task and at most one send-done task are posted
\* and not yet run; a receive task is posted exactly when mHandlingRxFrame
\* is true and a send-done task exactly when mHandlingSendDone is true.
C14_OneTaskEach ==
    /\ rxTaskPosted <= 1 /\ sendDonePosted <= 1
    /\ (rxTaskPosted = 1) <=> mHandlingRxFrame
    /\ (sendDonePosted = 1) <=> mHandlingSendDone

\* A callback whose counts describe a receivable frame ran while a receive
\* was pending, and posted nothing.
C14_Witness ==
    /\ mHandlingRxFrame /\ rxTaskPosted = 1 /\ ~cb.rxPosted
    /\ cb.rx.len > 0 /\ cb.rx.len <= cb.room /\ cb.rx.len <= cb.adv

\* C15: while a receive is pending the real inbound buffer is not the
\* inbound buffer of the prepared or running transaction and is not written;
\* mHandlingRxFrame is cleared only by the step that has given the frame to
\* HandleReceive.
C15_InboundBufferProtected ==
    /\ [](mHandlingRxFrame => armed.mosi # "mReceiveFrame")
    /\ [][/\ (mHandlingRxFrame /\ mHandlingRxFrame') => mReceiveFrame' = mReceiveFrame
          /\ (mHandlingRxFrame /\ ~mHandlingRxFrame') =>
                /\ rxDelivered' # None
                /\ mReceiveFrame' = mReceiveFrame]_vars

\* A whole transaction ran while a received frame was waiting in the real
\* inbound buffer, which still holds it.
C15_Witness ==
    /\ mHandlingRxFrame /\ ~cb.rxPosted /\ cb.len > SPI_HEADER_LENGTH
    /\ armed.mosi = "mEmptyReceiveFrame"
    /\ rxDetected.len = 1
    /\ spi_header_get_data_len(mReceiveFrame) = 1
    /\ mReceiveFrame[SPI_HEADER_LENGTH + 1] = 1


RxImplausible ==
    \/ cb'.len < SPI_HEADER_LENGTH
    \/ cb'.rx.len = 0
    \/ cb'.rx.len > cb'.len - SPI_HEADER_LENGTH
    \/ cb'.rx.len > cb'.adv

TxImplausible ==
    \/ cb'.len < SPI_HEADER_LENGTH
    \/ onWire.data = 0
    \/ onWire.data > cb'.len - SPI_HEADER_LENGTH
    \/ onWire.data > MasterAccept

\* C16: a completion with implausible counts detects nothing.  With a
\* transaction shorter than a header, or a master data-length that is 0, larger
\* than the payload clocked or larger than the accept-length advertised to the
\* master, mHandlingRxFrame is unchanged and no receive task is posted; with a
\* transmitted data-length that is 0, larger than the payload clocked or larger
\* than the master's accept-length, mHandlingSendDone and mSending are
\* unchanged and no send-done task is posted.
C16_ImplausibleDetectsNothing ==
    [][CompletionStep =>
        /\ RxImplausible =>
              /\ mHandlingRxFrame' = mHandlingRxFrame
              /\ rxTaskPosted' = rxTaskPosted
        /\ TxImplausible =>
              /\ mHandlingSendDone' = mHandlingSendDone
              /\ mSending' = mSending
              /\ sendDonePosted' = sendDonePosted]_vars


\* C18: in every armed transaction, whatever the interleaving of the completion
\* callback with OutboundFrameSend, the accept-length in the header of the
\* armed outbound buffer is at most the armed inbound buffer's length minus the
\* header, so a non-zero accept-length is never advertised with the header-only
\* empty inbound buffer; and no receive event is detected on a transaction
\* whose inbound buffer was the empty inbound buffer.
C18_AcceptFitsArmedInbound ==
    /\ [](ArmedAcceptLen <= armed.mosiLen - SPI_HEADER_LENGTH)
    /\ [][RxEventStep => armed.mosi # "mEmptyReceiveFrame"]_vars


StagedSize == mSendFrameIter - SPI_HEADER_LENGTH

\* C20: once OutboundFrameBegin has succeeded, after any sequence of
\* Begin/Feed/Send calls and completion callbacks the staged size lies between
\* 0 and the payload capacity, OutboundFrameGetRemaining is the capacity minus
\* the staged size with no 16-bit wrap-around, and every outbound length handed
\* to the driver is at most the send buffer's size.
C20_StagedWithinCapacity ==
    /\ mSendFrameIter # NoIter =>
          /\ 0 <= StagedSize /\ StagedSize <= SendFrameSize - SPI_HEADER_LENGTH
          /\ OutboundFrameGetRemaining = (SendFrameSize - SPI_HEADER_LENGTH) - StagedSize
          /\ Uint16(OutboundFrameSize + SPI_HEADER_LENGTH) <= SendFrameSize
    /\ armed.misoLen <= SendFrameSize

\* A full send buffer that a callback has just armed at its whole size.
C20_Witness ==
    /\ StagedSize = SendFrameSize - SPI_HEADER_LENGTH /\ OutboundFrameGetRemaining = 0
    /\ cb.len >= 0 /\ armed.miso = "mSendFrame" /\ armed.misoLen = SendFrameSize


\* The armed transaction offers the real inbound buffer at its whole size and
\* its outbound header advertises the whole inbound payload capacity.
FullCapacityArmed ==
    /\ armed.mosi = "mReceiveFrame"
    /\ armed.mosiLen = ReceiveFrameSize
    /\ ArmedAcceptLen = ReceiveFrameSize - SPI_HEADER_LENGTH

\* C17: backpressure is released.  A completion callback that ends with no
\* receive pending arms mReceiveFrame at full capacity and writes that capacity
\* as accept-length into the outbound buffer it arms; and, with deferred tasks
\* running and the master issuing transactions, a pending receive always
\* eventually leads to a transaction that advertises the full capacity.
C17_BackpressureReleased ==
    /\ [][(CompletionStep /\ ~mHandlingRxFrame') => FullCapacityArmed']_vars
    /\ (mHandlingRxFrame ~> FullCapacityArmed)

\* The transaction a callback armed under backpressure has completed after
\* HandleRxFrame ran, and the callback has armed the full capacity again.
C17_Witness ==
    /\ cb.len >= 0 /\ ~cb.dup
    /\ cb.t = Transaction("mEmptySendFrame", SPI_HEADER_LENGTH,
                          "mEmptyReceiveFrame", SPI_HEADER_LENGTH, FALSE)
    /\ ~mHandlingRxFrame /\ FullCapacityArmed

====
